---- MODULE Spec2Model ----
(***************************************************************************)
(* Model of nats_restriction_zones.py: the AIXM -> YAML conversion script. *)
(*                                                                         *)
(* Text is modelled as a sequence of Unicode code points, so that Python's *)
(* str operations (lstrip, startswith, replace, "in", <, +) are computed   *)
(* character by character as the interpreter computes them.                *)
(*                                                                         *)
(* An angle is an integer number of 1/SubSec arc-seconds (the value the    *)
(* parsed float denotes); getDMS is computed on that exact value.          *)
(***************************************************************************)
EXTENDS Integers, Sequences, FiniteSets, TLC

VARIABLES pc, filename, root, as_type, as_des, as_name, str,
          as_lowerlimit, as_upperlimit, xml_list, f, w, err, pos, dms

\* pc            where the script is: "loop", "extract", "designator", "rules",
\*               "limits", "geometry", "sort", "open", "write", "done",
\*               "failed" (uncaught exception); "pos"/"posdone" for handlePos
\* filename      sys.argv[1]
\* root          the message:hasMember children the loop has visited so far
\* as_type, as_des, as_name, str, as_lowerlimit, as_upperlimit
\*               the script's variables of the same name
\* xml_list      the blocks collected so far
\* f             the output file: path, chunks written, opened/closed
\* w             number of blocks the write loop has written
\* err           message of the uncaught exception
\* pos, dms      argument and result of a call of handlePos
vars == <<pc, filename, root, as_type, as_des, as_name, str,
          as_lowerlimit, as_upperlimit, xml_list, f, w, err, pos, dms>>

(* ----------------------------- bounds ---------------------------------- *)
\* number of message:hasMember children a document has at most
MaxMembers == 2
\* resolution of an angle: units per arc-second
SubSec == 4

\* units per degree
U == 3600 * SubSec

(* ------------------------- Python str operations ----------------------- *)
\* s.startswith(p)
StartsWith(s, p) == Len(s) >= Len(p) /\ SubSeq(s, 1, Len(p)) = p

\* p in s
Contains(s, p) ==
  \E k \in 0..(Len(s) - Len(p)) : SubSeq(s, k + 1, k + Len(p)) = p

\* s.lstrip(chars): drop leading characters while they belong to chars
RECURSIVE lstrip(_, _)
lstrip(s, chars) ==
  IF s # <<>> /\ (\E k \in 1..Len(chars) : chars[k] = s[1])
  THEN lstrip(Tail(s), chars)
  ELSE s

\* s.replace(old, new): every non-overlapping occurrence, left to right
RECURSIVE replace(_, _, _)
replace(s, old, new) ==
  IF Len(s) < Len(old) THEN s
  ELSE IF SubSeq(s, 1, Len(old)) = old
       THEN new \o replace(SubSeq(s, Len(old) + 1, Len(s)), old, new)
       ELSE <<s[1]>> \o replace(Tail(s), old, new)

\* s <= t in Python's ordering of str (code point by code point)
StrLE(s, t) ==
  LET n    == IF Len(s) < Len(t) THEN Len(s) ELSE Len(t)
      diff == {k \in 1..n : s[k] # t[k]}
  IN  IF diff = {} THEN Len(s) <= Len(t)
      ELSE LET k == CHOOSE k \in diff : \A j \in diff : k <= j
           IN  s[k] < t[k]

\* decimal digits of a natural number
RECURSIVE Digits(_)
Digits(n) ==
  IF n < 10 THEN <<48 + n>> ELSE Digits(n \div 10) \o <<48 + (n % 10)>>

\* left-pad with "0" to at least width characters
RECURSIVE ZeroPad(_, _)
ZeroPad(width, s) ==
  IF Len(s) >= width THEN s ELSE ZeroPad(width, <<48>> \o s)

\* "%0<width>d" % n, n >= 0
FmtD(width, n) == ZeroPad(width, Digits(n))

Abs(x) == IF x < 0 THEN -x ELSE x

\* Python 3 round(num/den) for num >= 0, den > 0 (ties go to the even integer)
Round(num, den) ==
  LET q == num \div den
      r == num % den
  IN  IF 2 * r < den THEN q
      ELSE IF 2 * r > den THEN q + 1
      ELSE IF q % 2 = 0 THEN q ELSE q + 1

(* ------------------------------ getDMS --------------------------------- *)
\* The arithmetic is exact: the rounding error of the float operations
\* (relative 2^-53) is not modelled.
\* getDMS with the seconds truncated instead of rounded
getDMS_trunc(angle, degree_digits) ==
  LET a       == Abs(angle)
      degrees == a \div U
      minutes == ((a - degrees * U) * 60) \div U
      seconds == (a - degrees * U - minutes * 60 * SubSec) \div SubSec
  IN  FmtD(degree_digits, degrees) \o FmtD(2, minutes) \o FmtD(2, seconds)

getDMS(angle, degree_digits) ==
  LET a       == Abs(angle)
      degrees == a \div U
      minutes == ((a - degrees * U) * 60) \div U
      seconds == Round(a - degrees * U - minutes * 60 * SubSec, SubSec)
  IN  FmtD(degree_digits, degrees) \o FmtD(2, minutes) \o FmtD(2, seconds)

\* handlePos: p is the parsed pair (lat, lon) of the gml:pos text
handlePos(p) ==
  LET latdir == IF p.lat < 0 THEN <<83>> ELSE <<78>>     \* "S" / "N"
      londir == IF p.lon < 0 THEN <<87>> ELSE <<69>>     \* "W" / "E"
  IN  getDMS(p.lat, 2) \o latdir \o <<32>> \o getDMS(p.lon, 3) \o londir

(* --------------------------- string literals --------------------------- *)
S_EG_SP      == <<69, 71, 32>>                                  \* "EG "
S_RU         == <<82, 85>>                                      \* "RU"
S_NL         == <<10>>                                          \* "\n"
S_SP         == <<32>>                                          \* " "
S_NAME       == <<45, 32, 110, 97, 109, 101, 58, 32>>           \* "- name: "
S_TYPE       == <<32, 32, 116, 121, 112, 101, 58, 32>>          \* "  type: "
\* "  rules:\n  - NOTAM\n"
S_RULES      == <<32, 32, 114, 117, 108, 101, 115, 58, 10,
                  32, 32, 45, 32, 78, 79, 84, 65, 77, 10>>
\* "  geometry:\n  - upper: "
S_UPPER      == <<32, 32, 103, 101, 111, 109, 101, 116, 114, 121, 58, 10,
                  32, 32, 45, 32, 117, 112, 112, 101, 114, 58, 32>>
\* "\n    lower: "
S_LOWER      == <<10, 32, 32, 32, 32, 108, 111, 119, 101, 114, 58, 32>>
\* "\n    boundary:\n"
S_BOUNDARY   == <<10, 32, 32, 32, 32, 98, 111, 117, 110, 100, 97, 114, 121, 58, 10>>
\* "    - line:\n"
S_LINE       == <<32, 32, 32, 32, 45, 32, 108, 105, 110, 101, 58, 10>>
\* "    - line string segment:\n"
S_LINESTRSEG == <<32, 32, 32, 32, 45, 32, 108, 105, 110, 101, 32, 115, 116, 114,
                  105, 110, 103, 32, 115, 101, 103, 109, 101, 110, 116, 58, 10>>
\* "      - "
S_ITEM       == <<32, 32, 32, 32, 32, 32, 45, 32>>
\* "    - arc:\n        dir: cw\n"
S_ARC        == <<32, 32, 32, 32, 45, 32, 97, 114, 99, 58, 10, 32, 32, 32, 32,
                  32, 32, 32, 32, 100, 105, 114, 58, 32, 99, 119, 10>>
\* "        radius: "
S_RADIUS     == <<32, 32, 32, 32, 32, 32, 32, 32, 114, 97, 100, 105, 117, 115, 58, 32>>
\* " nm\n"
S_NM         == <<32, 110, 109, 10>>
\* "        centre: "
S_CENTRE     == <<32, 32, 32, 32, 32, 32, 32, 32, 99, 101, 110, 116, 114, 101, 58, 32>>
\* "    - circle:\n"
S_CIRCLE     == <<32, 32, 32, 32, 45, 32, 99, 105, 114, 99, 108, 101, 58, 10>>
S_FT         == <<32, 102, 116>>                                \* " ft"
S_FL         == <<70, 76>>                                      \* "FL"
S_SFC        == <<83, 70, 67>>                                  \* "SFC"
S_XML        == <<46, 120, 109, 108>>                           \* ".xml"
S_YAML       == <<46, 121, 97, 109, 108>>                       \* ".yaml"
\* "#----------------------------------------------------------------------\n"
S_PREAMBLE1  == <<35, 45, 45, 45, 45, 45, 45, 45, 45, 45, 45, 45, 45, 45, 45, 45, 45, 45, 45, 45, 45, 45, 45, 45, 45, 45, 45, 45, 45, 45, 45, 45, 45, 45, 45, 45, 45, 45, 45, 45, 45, 45, 45, 45, 45, 45, 45, 45, 45, 45, 45, 45, 45, 45, 45, 45, 45, 45, 45, 45, 45, 45, 45, 45, 45, 45, 45, 45, 45, 45, 45, 10>>
\* "# ENR 5.1 Prohibited, restricted and danger areas\n"
S_PREAMBLE2  == <<35, 32, 69, 78, 82, 32, 53, 46, 49, 32, 80, 114, 111, 104, 105,
                  98, 105, 116, 101, 100, 44, 32, 114, 101, 115, 116, 114, 105, 99,
                  116, 101, 100, 32, 97, 110, 100, 32, 100, 97, 110, 103, 101, 114,
                  32, 97, 114, 101, 97, 115, 10>>
\* "# Autogenerated from "
S_PREAMBLE3  == <<35, 32, 65, 117, 116, 111, 103, 101, 110, 101, 114, 97, 116, 101,
                  100, 32, 102, 114, 111, 109, 32>>
\* the four tag names the segment dispatch looks for
T_GeodesicString      == <<71, 101, 111, 100, 101, 115, 105, 99, 83, 116, 114, 105, 110, 103>>
T_ArcByCenterPoint    == <<65, 114, 99, 66, 121, 67, 101, 110, 116, 101, 114, 80, 111, 105, 110, 116>>
T_LineStringSegment   == <<76, 105, 110, 101, 83, 116, 114, 105, 110, 103, 83, 101, 103,
                           109, 101, 110, 116>>
T_CircleByCenterPoint == <<67, 105, 114, 99, 108, 101, 66, 121, 67, 101, 110, 116, 101,
                           114, 80, 111, 105, 110, 116>>

(* -------------------------- segment handlers --------------------------- *)
\* the "      - <position>\n" lines of the point properties, in source order
RECURSIVE PointLines(_)
PointLines(points) ==
  IF points = <<>> THEN <<>>
  ELSE S_ITEM \o handlePos(points[1]) \o S_NL \o PointLines(Tail(points))

handleGeodesicString(geostr) == S_LINE \o PointLines(geostr.points)

handleLineStringSegment(geostr) == S_LINESTRSEG \o PointLines(geostr.points)

\* radius.text is copied; the radius text is the decimal numeral of seg.radius
handleArcByCenterPoint(arc) ==
  S_ARC \o S_RADIUS \o Digits(arc.radius) \o S_NM
        \o S_CENTRE \o handlePos(arc.centre) \o S_NL

RECURSIVE Pow10(_)
Pow10(k) == IF k = 0 THEN 1 ELSE 10 * Pow10(k - 1)

RECURSIVE StripZeros(_)
StripZeros(s) ==
  IF s # <<>> /\ s[Len(s)] = 48 THEN StripZeros(SubSeq(s, 1, Len(s) - 1)) ELSE s

\* "%.<prec>g" % (num/den) for 1 <= num/den < 10^prec
FormatG(num, den, prec) ==
  LET ip       == num \div den
      decimals == prec - Len(Digits(ip))
      scale    == Pow10(decimals)
      r        == Round(num * scale, den)
      frac     == StripZeros(ZeroPad(decimals, Digits(r % scale)))
  IN  IF decimals = 0 /\ r >= Pow10(prec)
      THEN <<49, 101, 43>> \o FmtD(2, prec)                  \* "1e+NN"
      ELSE IF decimals = 0 \/ frac = <<>> THEN Digits(r \div scale)
      ELSE Digits(r \div scale) \o <<46>> \o frac

\* the radius text is the decimal numeral of arc.radius, arc.uom its uom attribute
handleCircleByCenterPoint(arc) ==
  LET radval == IF arc.uom = "[nmi_i]" THEN FormatG(arc.radius, 1, 6)
                ELSE IF arc.uom = "M" THEN FormatG(arc.radius, 1852, 2)
                ELSE IF arc.uom = "[ft_i]" THEN FormatG(arc.radius * 100, 607612, 2)
                ELSE FormatG(arc.radius, 1, 6)
  IN  S_CIRCLE \o S_RADIUS \o radval \o S_NM
               \o S_CENTRE \o handlePos(arc.centre) \o S_NL

(* ------------------------- the segment dispatch ------------------------ *)
\* some branch of the if/elif chain is taken
TagHandled(tag) ==
  \/ Contains(tag, T_GeodesicString)
  \/ Contains(tag, T_ArcByCenterPoint)
  \/ Contains(tag, T_LineStringSegment)
  \/ Contains(tag, T_CircleByCenterPoint)

\* one iteration of "for child in segments"
RenderSegment(child) ==
  IF Contains(child.tag, T_GeodesicString) THEN handleGeodesicString(child)
  ELSE IF Contains(child.tag, T_ArcByCenterPoint) THEN handleArcByCenterPoint(child)
  ELSE IF Contains(child.tag, T_LineStringSegment) THEN handleLineStringSegment(child)
  ELSE handleCircleByCenterPoint(child)

\* "for child in segments" with a tag no branch matches passed over
RECURSIVE RenderSegments_skip(_)
RenderSegments_skip(segments) ==
  IF segments = <<>> THEN [ok |-> TRUE, text |-> <<>>]
  ELSE LET rest == RenderSegments_skip(Tail(segments))
       IN  IF ~TagHandled(segments[1].tag) THEN rest
           ELSE [ok |-> rest.ok, text |-> RenderSegment(segments[1]) \o rest.text]

\* "for child in segments": the text appended to str, and whether the loop
\* ended without raising
RECURSIVE RenderSegments(_)
RenderSegments(segments) ==
  IF segments = <<>> THEN [ok |-> TRUE, text |-> <<>>]
  ELSE IF ~TagHandled(segments[1].tag) THEN [ok |-> FALSE, text |-> <<>>]
  ELSE LET rest == RenderSegments(Tail(segments))
       IN  [ok |-> rest.ok, text |-> RenderSegment(segments[1]) \o rest.text]

\* "for curvemember in ring"
RECURSIVE RenderRing(_)
RenderRing(ring) ==
  IF ring = <<>> THEN [ok |-> TRUE, text |-> <<>>]
  ELSE IF ~ring[1].hasCurve THEN RenderRing(Tail(ring))
  ELSE LET first == RenderSegments(ring[1].segments)
       IN  IF ~first.ok THEN first
           ELSE LET rest == RenderRing(Tail(ring))
                IN  [ok |-> rest.ok, text |-> first.text \o rest.text]

(* ------------------------------- sort ---------------------------------- *)
RECURSIVE Insert(_, _)
Insert(x, sorted) ==
  IF sorted = <<>> THEN <<x>>
  ELSE IF StrLE(sorted[1], x) THEN <<sorted[1]>> \o Insert(x, Tail(sorted))
  ELSE <<x>> \o sorted

\* list.sort() left out
Sorted_none(list) == list

\* list.sort(): ascending, stable
RECURSIVE Sorted(_)
Sorted(list) ==
  IF list = <<>> THEN <<>>
  ELSE Insert(list[Len(list)], Sorted(SubSeq(list, 1, Len(list) - 1)))

(* --------------------------- input documents --------------------------- *)
\* an angle given as degrees, minutes, seconds
DegMinSec(d, m, s) == (d * 3600 + m * 60 + s) * SubSec

Pos1 == [lat |-> DegMinSec(51, 28, 39), lon |-> -DegMinSec(0, 27, 41)]
Pos2 == [lat |-> DegMinSec(50, 0, 0),   lon |-> DegMinSec(1, 30, 0)]

\* a child of gml:segments
Segment(tag, points, radius, uom) ==
  [tag |-> tag, points |-> points, centre |-> Pos1, radius |-> radius, uom |-> uom]

LineSeg(tag) == Segment(tag, <<Pos1, Pos2>>, 0, "")
CircleSeg(radius, uom) == Segment(T_CircleByCenterPoint, <<>>, radius, uom)

\* a child of gml:Ring, with or without a gml:Curve
Curve(segments) == [hasCurve |-> TRUE, segments |-> segments]
NoCurve         == [hasCurve |-> FALSE, segments |-> <<>>]

\* tags the dispatch has no branch for, and one that only contains a known name
T_Geodesic        == <<71, 101, 111, 100, 101, 115, 105, 99>>
T_GeodesicStringZ == <<71, 101, 111, 100, 101, 115, 105, 99, 83, 116, 114, 105, 110, 103, 90>>

\* A message:hasMember element.
\*   depth: 0 no aixm:Airspace, 1 Airspace without timeSlice,
\*          2 timeSlice without AirspaceTimeSlice, 3 complete
\*   act:   number of levels present of the chain activation >
\*          AirspaceActivation > annotation > Note > translatedNote >
\*          LinguisticNote > note;  note: the text of the last one
BaseMember ==
  [depth |-> 3,
   type  |-> <<68>>,                       \* "D"
   des   |-> <<69, 71, 32, 68, 49>>,       \* "EG D1"
   name  |-> <<65>>,                       \* "A"
   act   |-> 0,
   note  |-> "",
   lower |-> [val |-> <<48>>, uom |-> "FT", ref |-> "SFC"],
   upper |-> [val |-> <<53, 48>>, uom |-> "FL"],
   ring  |-> <<Curve(<<LineSeg(T_GeodesicString)>>)>>]

PathVariants ==
  {[BaseMember EXCEPT !.depth = d] : d \in 0..2}

DesVariants ==
  {[BaseMember EXCEPT !.des = d] :
     d \in {<<69, 71, 32, 71, 49>>,        \* "EG G1"
            <<69, 71, 32, 69, 82, 85>>,    \* "EG ERU"
            <<69, 71, 32, 82, 85, 49>>,    \* "EG RU1"
            <<68, 49>>}}                   \* "D1"

NameVariants ==
  {[BaseMember EXCEPT !.name = n] :
     n \in {<<65, 9, 66>>,                 \* "A\tB"
            <<66>>}}                       \* "B"

ActVariants ==
  {[BaseMember EXCEPT !.act = a] : a \in 1..6}
  \cup {[BaseMember EXCEPT !.act = 7, !.note = t] :
          t \in {"Activated by NOTAM.", "Activated by NOTAM"}}

LowerVariants ==
  {[BaseMember EXCEPT !.lower = l] :
     l \in {[val |-> <<48>>,     uom |-> "M",  ref |-> "STD"],
            [val |-> <<48>>,     uom |-> "FT", ref |-> "ALT"],
            [val |-> <<48>>,     uom |-> "FL", ref |-> "ALT"],
            [val |-> <<48>>,     uom |-> "M",  ref |-> "ALT"],
            [val |-> <<48, 48>>, uom |-> "FT", ref |-> "MSL"],
            [val |-> <<53, 48>>, uom |-> "FL", ref |-> "STD"],
            [val |-> <<53, 48>>, uom |-> "M",  ref |-> "SFC"]}}

UpperVariants ==
  {[BaseMember EXCEPT !.upper = u] :
     u \in {[val |-> <<53, 48>>, uom |-> "FT"],
            [val |-> <<53, 48>>, uom |-> "M"]}}

RingVariants ==
  {[BaseMember EXCEPT !.ring = r] :
     r \in {<<Curve(<<LineSeg(T_LineStringSegment)>>)>>,
            <<Curve(<<Segment(T_ArcByCenterPoint, <<>>, 2, "[nmi_i]")>>)>>,
            <<Curve(<<CircleSeg(2, "[nmi_i]")>>)>>,
            <<Curve(<<CircleSeg(5000, "M")>>)>>,
            <<Curve(<<CircleSeg(10000, "[ft_i]")>>)>>,
            <<Curve(<<CircleSeg(3, "KM")>>)>>,
            <<Curve(<<LineSeg(T_Geodesic)>>)>>,
            <<Curve(<<LineSeg(T_GeodesicStringZ)>>)>>,
            <<NoCurve, Curve(<<LineSeg(T_GeodesicString)>>)>>,
            <<Curve(<<LineSeg(T_GeodesicString)>>), Curve(<<LineSeg(T_Geodesic)>>)>>}}
  \cup {[BaseMember EXCEPT !.des = <<69, 71, 32, 82, 85, 49>>,
                           !.ring = <<Curve(<<LineSeg(T_Geodesic)>>)>>]}

Members ==
  {BaseMember} \cup PathVariants \cup DesVariants \cup NameVariants
  \cup ActVariants \cup LowerVariants \cup UpperVariants \cup RingVariants

\* sys.argv[1]
Filenames ==
  {<<97, 46, 120, 109, 108>>,                                   \* "a.xml"
   <<100, 46, 120, 109, 108, 47, 97, 46, 120, 109, 108>>,       \* "d.xml/a.xml"
   <<97, 46, 97, 105, 120, 109>>}                               \* "a.aixm"

(* ------------------------------ the script ----------------------------- *)
NoFile == [opened |-> FALSE, closed |-> FALSE, path |-> <<>>, data |-> <<>>]
NoPos  == [lat |-> 0, lon |-> 0]

\* the hasMember element the loop is at
child == root[Len(root)]

Init ==
  /\ pc = "loop"
  /\ filename \in Filenames
  /\ root = <<>>
  /\ as_type = <<>> /\ as_des = <<>> /\ as_name = <<>>
  /\ str = <<>>
  /\ as_lowerlimit = <<>> /\ as_upperlimit = <<>>
  /\ xml_list = <<>>
  /\ f = NoFile
  /\ w = 0
  /\ err = ""
  /\ pos = NoPos
  /\ dms = <<>>

\* an uncaught exception ends the run
Raise(e) == pc' = "failed" /\ err' = e

\* for child in root.findall("message:hasMember"): the next element, and the
\* drill down to its timeSlice
LoopNext ==
  /\ pc = "loop"
  /\ Len(root) < MaxMembers
  /\ \E m \in Members :
       /\ root' = Append(root, m)
       /\ IF m.depth = 0 THEN pc' = "loop" /\ err' = err
          ELSE IF m.depth = 1 THEN Raise("AttributeError")
          ELSE pc' = "extract" /\ err' = err
  /\ UNCHANGED <<filename, as_type, as_des, as_name, str, as_lowerlimit,
                 as_upperlimit, xml_list, f, w, pos, dms>>

\* the document has no further hasMember element
LoopExit ==
  /\ pc = "loop"
  /\ pc' = "sort"
  /\ UNCHANGED <<filename, root, as_type, as_des, as_name, str, as_lowerlimit,
                 as_upperlimit, xml_list, f, w, err, pos, dms>>

\* extract type, designator and name from the AirspaceTimeSlice
Extract ==
  /\ pc = "extract"
  /\ IF child.depth = 2
     THEN /\ Raise("AttributeError")
          /\ UNCHANGED <<as_type, as_des, as_name>>
     ELSE /\ as_type' = child.type
          /\ as_des' = child.des
          /\ as_name' = child.name
          /\ pc' = "designator"
          /\ err' = err
  /\ UNCHANGED <<filename, root, str, as_lowerlimit, as_upperlimit,
                 xml_list, f, w, pos, dms>>

\* remove "EG " from the designator, skip runway zones, start the block
Designator ==
  /\ pc = "designator"
  /\ as_des' = lstrip(as_des, S_EG_SP)
  /\ IF StartsWith(as_des', S_RU)
     THEN pc' = "loop" /\ str' = str
     ELSE /\ pc' = "rules"
          /\ str' = S_NAME \o as_des' \o S_SP \o as_name \o S_NL
                    \o S_TYPE \o as_type \o S_NL
  /\ UNCHANGED <<filename, root, as_type, as_name, as_lowerlimit,
                 as_upperlimit, xml_list, f, w, err, pos, dms>>

\* get the rules
Rules ==
  /\ pc = "rules"
  /\ IF child.act \in {1, 2, 4, 5, 6}
     THEN Raise("AttributeError") /\ str' = str
     ELSE /\ pc' = "limits"
          /\ err' = err
          /\ str' = IF child.act = 7 /\ child.note = "Activated by NOTAM."
                    THEN str \o S_RULES ELSE str
  /\ UNCHANGED <<filename, root, as_type, as_des, as_name, as_lowerlimit,
                 as_upperlimit, xml_list, f, w, pos, dms>>

\* the lower limit rendered "SFC" for every SFC/MSL/STD reference, whatever the value
LowerLimit_anyvalue(val, uom, ref) ==
  IF ref \in {"SFC", "MSL", "STD"} THEN [ok |-> TRUE, text |-> S_SFC]
  ELSE IF uom = "FT" THEN [ok |-> TRUE, text |-> val \o S_FT]
  ELSE IF uom = "FL" THEN [ok |-> TRUE, text |-> S_FL \o val]
  ELSE [ok |-> FALSE, text |-> val]

\* set lower limit string as appropriate; ok is FALSE where the code raises
LowerLimit(val, uom, ref) ==
  IF ref \in {"SFC", "MSL", "STD"} /\ val = <<48>> THEN [ok |-> TRUE, text |-> S_SFC]
  ELSE IF uom = "FT" THEN [ok |-> TRUE, text |-> val \o S_FT]
  ELSE IF uom = "FL" THEN [ok |-> TRUE, text |-> S_FL \o val]
  ELSE [ok |-> FALSE, text |-> val]

\* set upper limit string as appropriate
UpperLimit(val, uom) ==
  IF uom = "FT" THEN [ok |-> TRUE, text |-> val \o S_FT]
  ELSE IF uom = "FL" THEN [ok |-> TRUE, text |-> S_FL \o val]
  ELSE [ok |-> FALSE, text |-> val]

\* get the upper and lower limits and add them to the block
Limits ==
  /\ pc = "limits"
  /\ LET lo == LowerLimit(child.lower.val, child.lower.uom, child.lower.ref)
         up == UpperLimit(child.upper.val, child.upper.uom)
     IN  /\ as_lowerlimit' = lo.text
         /\ as_upperlimit' = IF lo.ok THEN up.text ELSE child.upper.val
         /\ IF lo.ok /\ up.ok
            THEN /\ pc' = "geometry"
                 /\ err' = err
                 /\ str' = str \o S_UPPER \o up.text \o S_LOWER \o lo.text
                               \o S_BOUNDARY
            ELSE /\ Raise("Unexpected combination for lower limit")
                 /\ str' = str
  /\ UNCHANGED <<filename, root, as_type, as_des, as_name, xml_list, f, w,
                 pos, dms>>

\* render the curve segments of the ring and append the block to xml_list
Geometry ==
  /\ pc = "geometry"
  /\ LET r == RenderRing(child.ring)
     IN  /\ str' = str \o r.text
         /\ IF r.ok
            THEN /\ xml_list' = Append(xml_list, str')
                 /\ pc' = "loop"
                 /\ err' = err
            ELSE /\ Raise("Unhandled tag")
                 /\ xml_list' = xml_list
  /\ UNCHANGED <<filename, root, as_type, as_des, as_name, as_lowerlimit,
                 as_upperlimit, f, w, pos, dms>>

\* xml_list.sort()
Sort ==
  /\ pc = "sort"
  /\ xml_list' = Sorted(xml_list)
  /\ pc' = "open"
  /\ UNCHANGED <<filename, root, as_type, as_des, as_name, str, as_lowerlimit,
                 as_upperlimit, f, w, err, pos, dms>>

\* open the output file and write the three comment lines
OpenOutput ==
  /\ pc = "open"
  /\ f' = [opened |-> TRUE, closed |-> FALSE,
           path   |-> replace(filename, S_XML, S_YAML),
           data   |-> <<S_PREAMBLE1, S_PREAMBLE2,
                        S_PREAMBLE3 \o filename \o S_NL \o S_NL>>]
  /\ w' = 0
  /\ pc' = "write"
  /\ UNCHANGED <<filename, root, as_type, as_des, as_name, str, as_lowerlimit,
                 as_upperlimit, xml_list, err, pos, dms>>

\* for a in xml_list: f.write(a); f.write("\n")
WriteBlock ==
  /\ pc = "write"
  /\ w < Len(xml_list)
  /\ f' = [f EXCEPT !.data = f.data \o <<xml_list[w + 1], S_NL>>]
  /\ w' = w + 1
  /\ UNCHANGED <<pc, filename, root, as_type, as_des, as_name, str,
                 as_lowerlimit, as_upperlimit, xml_list, err, pos, dms>>

\* f.close()
Close ==
  /\ pc = "write"
  /\ w = Len(xml_list)
  /\ f' = [f EXCEPT !.closed = TRUE]
  /\ pc' = "done"
  /\ UNCHANGED <<filename, root, as_type, as_des, as_name, str, as_lowerlimit,
                 as_upperlimit, xml_list, w, err, pos, dms>>

Next ==
  \/ LoopNext \/ LoopExit \/ Extract \/ Designator \/ Rules \/ Limits
  \/ Geometry \/ Sort \/ OpenOutput \/ WriteBlock \/ Close

Spec == Init /\ [][Next]_vars

(* ------------------- handlePos on a range of positions ----------------- *)
\* seconds (in angle units) close to a whole minute on either side
SecUnits ==
  {q \in 0..(60 * SubSec - 1) : q <= SubSec + 1 \/ q >= 59 * SubSec - 1}

Angles(degs) ==
  {s * (d * U + m * 60 * SubSec + q) :
     s \in {-1, 1}, d \in degs, m \in {0, 59}, q \in SecUnits}

Latitudes  == Angles({0, 51, 89, 123}) \cup {90 * U, -90 * U}
Longitudes == Angles({0, 7, 179, 1234}) \cup {180 * U, -180 * U}

InitPos ==
  /\ pc = "pos"
  /\ pos \in [lat : Latitudes, lon : Longitudes]
  /\ dms = <<>>
  /\ filename = <<>>
  /\ root = <<>>
  /\ as_type = <<>> /\ as_des = <<>> /\ as_name = <<>>
  /\ str = <<>>
  /\ as_lowerlimit = <<>> /\ as_upperlimit = <<>>
  /\ xml_list = <<>>
  /\ f = NoFile
  /\ w = 0
  /\ err = ""

\* one call of handlePos
HandlePos ==
  /\ pc = "pos"
  /\ dms' = handlePos(pos)
  /\ pc' = "posdone"
  /\ UNCHANGED <<filename, root, as_type, as_des, as_name, str, as_lowerlimit,
                 as_upperlimit, xml_list, f, w, err, pos>>

NextPos == HandlePos

SpecPos == InitPos /\ [][NextPos]_vars

(* ============================== the claims ============================== *)
\* s.endswith(p)
EndsWith(s, p) == Len(s) >= Len(p) /\ SubSeq(s, Len(s) - Len(p) + 1, Len(s)) = p

\* d without a leading "EG ", otherwise d itself
WithoutPrefixEG(d) ==
  IF StartsWith(d, S_EG_SP) THEN SubSeq(d, Len(S_EG_SP) + 1, Len(d)) ELSE d

\* C1: designator normalization removes exactly the prefix "EG " and leaves
\* the characters after it alone, and a record is dropped only when the
\* designator without that prefix starts with "RU".
C1_PrefixOnlyRemoved ==
  [][pc = "designator" =>
       /\ as_des' = WithoutPrefixEG(as_des)
       /\ pc' = "loop" => StartsWith(WithoutPrefixEG(as_des), S_RU)]_vars

\* C2: the lower limit is rendered "SFC" exactly when the reference is SFC,
\* MSL or STD and the value text is "0", whatever the unit; otherwise
\* "<value> ft" for unit FT, otherwise "FL<value>" for unit FL, otherwise the
\* run fails and nothing is rendered.
C2_LowerLimitPolicy ==
  [][pc = "limits" =>
       LET l   == child.lower
           sfc == l.ref \in {"SFC", "MSL", "STD"} /\ l.val = <<48>>
           rendered(t) ==
             /\ as_lowerlimit' = t
             /\ pc' = "geometry" => EndsWith(str', S_LOWER \o t \o S_BOUNDARY)
       IN  /\ IF sfc THEN rendered(S_SFC)
              ELSE IF l.uom = "FT" THEN rendered(l.val \o S_FT)
              ELSE IF l.uom = "FL" THEN rendered(S_FL \o l.val)
              ELSE /\ pc' = "failed"
                   /\ err' = "Unexpected combination for lower limit"
                   /\ str' = str
                   /\ xml_list' = xml_list
           /\ (pc' = "geometry" /\ as_lowerlimit' = S_SFC) => sfc]_vars

\* a lower limit of value "0" and reference STD in metres was rendered "SFC"
C2_Witness ==
  /\ pc = "geometry"
  /\ child.lower.uom = "M"
  /\ as_lowerlimit = S_SFC
  /\ EndsWith(str, S_LOWER \o S_SFC \o S_BOUNDARY)

\* the blocks written to the output file so far, in the order written
Written == [k \in 1..((Len(f.data) - 3) \div 2) |-> f.data[2 * k + 2]]

FirstNL(s) == CHOOSE k \in 1..Len(s) : s[k] = 10 /\ \A j \in 1..(k - 1) : s[j] # 10

\* the "- name: <designator> <name>" line of a block, without and with its newline
NameLine(b)   == SubSeq(b, 1, FirstNL(b) - 1)
NameLineNL(b) == SubSeq(b, 1, FirstNL(b))

\* C3 as stated: the written blocks are in lexicographic order of the text
\* of their name line.
C3_OrderedByNameLine ==
  f.opened =>
    \A k \in 1..(Len(Written) - 1) :
      StrLE(NameLine(Written[k]), NameLine(Written[k + 1]))

\* C3 amended: the written blocks are in lexicographic order of their name
\* line taken with its terminating newline, whatever the document order.
C3_OrderedByNameLineNL ==
  f.opened =>
    \A k \in 1..(Len(Written) - 1) :
      StrLE(NameLineNL(Written[k]), NameLineNL(Written[k + 1]))

\* two blocks were written in the reverse of their document order
C3_Witness ==
  /\ pc = "done"
  /\ Len(root) = 2
  /\ root[1].name = <<66>> /\ root[2].name = <<65>>
  /\ root[1].des = root[2].des
  /\ Len(Written) = 2
  /\ NameLineNL(Written[1]) # NameLineNL(Written[2])

\* the tag is one of the four recognized variants
RecognizedVariant(tag) ==
  tag \in {T_GeodesicString, T_LineStringSegment,
           T_ArcByCenterPoint, T_CircleByCenterPoint}

\* the tag contains the name of one of the four recognized variants
ContainsVariantName(tag) ==
  \E name \in {T_GeodesicString, T_LineStringSegment,
               T_ArcByCenterPoint, T_CircleByCenterPoint} : Contains(tag, name)

\* the tags of the curve segments of a ring
SegmentTagsOf(ring) ==
  UNION {{ring[c].segments[k].tag : k \in 1..Len(ring[c].segments)} :
           c \in {c \in 1..Len(ring) : ring[c].hasCurve}}

C5_BrokenPathSkipped ==
  (root # <<>> /\ child.depth < 3) => pc # "failed"

\* C6: activation-rule extraction never raises; the rules lines are added
\* exactly when the chain resolves completely and the note text is
\* "Activated by NOTAM.".
C6_RulesNeverRaise ==
  [][pc = "rules" =>
       /\ pc' = "limits"
       /\ str' = IF child.act = 7 /\ child.note = "Activated by NOTAM."
                 THEN str \o S_RULES ELSE str]_vars

\* the ring with every LineStringSegment given as a GeodesicString
AsGeodesicString(ring) ==
  [c \in 1..Len(ring) |->
     [ring[c] EXCEPT !.segments =
        [k \in 1..Len(ring[c].segments) |->
           IF ring[c].segments[k].tag = T_LineStringSegment
           THEN [ring[c].segments[k] EXCEPT !.tag = T_GeodesicString]
           ELSE ring[c].segments[k]]]]

\* C7: a LineStringSegment is rendered to the same text as a GeodesicString
\* with the same points.
C7_LineVariantsRenderAlike ==
  [][(pc = "geometry" /\ pc' = "loop") =>
       str' = str \o RenderRing(AsGeodesicString(child.ring)).text]_vars

\* the value of a string of decimal digits
RECURSIVE Num(_)
Num(s) == IF s = <<>> THEN 0 ELSE 10 * Num(SubSeq(s, 1, Len(s) - 1)) + (s[Len(s)] - 48)

IsDigits(s) == \A k \in 1..Len(s) : s[k] \in 48..57

\* d is angle's degrees as digits, then 2 minute digits, then 2 digits of the
\* remaining arc-seconds rounded to the nearest integer
IsRoundedDMS(d, angle, degree_digits) ==
  LET a   == Abs(angle)
      sec == Num(SubSeq(d, degree_digits + 3, degree_digits + 4))
      rem == a % (60 * SubSec)
  IN  /\ Len(d) = degree_digits + 4
      /\ IsDigits(d)
      /\ Num(SubSeq(d, 1, degree_digits)) = a \div U
      /\ Num(SubSeq(d, degree_digits + 1, degree_digits + 2)) = (a % U) \div (60 * SubSec)
      /\ 2 * Abs(sec * SubSec - rem) <= SubSec

\* C8: for |latitude| <= 90 and |longitude| <= 180 handlePos gives 2 degree
\* digits, 2 minute digits, 2 second digits and N/S (S iff negative), a
\* space, then 3 degree digits, 2 minute digits, 2 second digits and E/W (W
\* iff negative); the seconds are rounded to the nearest integer.
C8_PositionFormat ==
  (pc = "posdone" /\ Abs(pos.lat) <= 90 * U /\ Abs(pos.lon) <= 180 * U) =>
    /\ Len(dms) = 16
    /\ SubSeq(dms, 1, 6) = SubSeq(handlePos([lat |-> -pos.lat, lon |-> -pos.lon]), 1, 6)
    /\ SubSeq(dms, 9, 15) = SubSeq(handlePos([lat |-> -pos.lat, lon |-> -pos.lon]), 9, 15)
    /\ IsRoundedDMS(SubSeq(dms, 1, 6), pos.lat, 2)
    /\ dms[7] = (IF pos.lat < 0 THEN 83 ELSE 78)
    /\ dms[8] = 32
    /\ IsRoundedDMS(SubSeq(dms, 9, 15), pos.lon, 3)
    /\ dms[16] = (IF pos.lon < 0 THEN 87 ELSE 69)

\* a southern, western position whose seconds are rounded up
C8_Witness ==
  /\ pc = "posdone"
  /\ pos.lat = -(51 * U + SubSec - 1)
  /\ pos.lon = -(7 * U + SubSec - 1)
  /\ dms = <<53, 49, 48, 48, 48, 49, 83, 32, 48, 48, 55, 48, 48, 48, 49, 87>>

\* the latitude part of a handlePos result: the digits before the first letter
LatDigits(d) ==
  SubSeq(d, 1, (CHOOSE k \in 1..Len(d) : d[k] \notin 48..57
                                          /\ \A j \in 1..(k - 1) : d[j] \in 48..57) - 1)

\* C10: the minutes and the seconds field of a DMS string are both in 00..59.
C10_FieldsBelowSixty ==
  pc = "posdone" =>
    LET lat == LatDigits(dms)
    IN  /\ Num(SubSeq(lat, Len(lat) - 3, Len(lat) - 2)) <= 59
        /\ Num(SubSeq(lat, Len(lat) - 1, Len(lat))) <= 59

\* the input path with a trailing ".xml" replaced by ".yaml"
SuffixReplaced(p) ==
  IF EndsWith(p, S_XML) THEN SubSeq(p, 1, Len(p) - Len(S_XML)) \o S_YAML ELSE p

\* C9: the output path is the input path with only its trailing ".xml"
\* replaced by ".yaml", and it is never the input path.
C9_OnlySuffixReplaced ==
  f.opened => (f.path = SuffixReplaced(filename) /\ f.path # filename)

====
